---- MODULE Spec2Model ----
(***************************************************************************)
(* A model of pandas/io/sql.py: the query wrappers execute, _safe_fetch,   *)
(* tquery and uquery, the write path write_frame / table_exists /          *)
(* get_schema / sequence2dict, and the type mapper get_sqltype.            *)
(*                                                                         *)
(* The DB-API connection and its cursors are external objects: every call  *)
(* made on them is appended to `log` together with its outcome, and every  *)
(* such call may succeed or raise (at most MaxFaults times per run).       *)
(* The module is Python 2 code (print statements, `except Exception, e`),  *)
(* and is modelled with Python 2 semantics.                                *)
(***************************************************************************)
EXTENDS Integers, Sequences, FiniteSets, TLC

\* ------------------------------------------------------------- bounds
MaxFaults == 2      \* calls on the connection/cursor that may raise in one run
MaxFields == 2      \* fields of a fetched row
MaxResRows == 2     \* rows of a fetched result set
MaxCols == 2        \* columns of a written frame
MaxFrameRows == 2   \* rows of a written frame

\* ------------------------------------------------------ Python values
\* Every Python value the model handles is a record [tag, items], so that
\* None, scalars, tuples, lists and dicts can be compared with one another.
Py(tag, items) == [tag |-> tag, items |-> items]
PyNone == Py("None", <<>>)
Scalar(v) == Py("scalar", <<v>>)
Tuple(items) == Py("tuple", items)
List(items) == Py("list", items)

\* An exception: the name of its class and the call that raised it.
Exc(kind, origin) == [kind |-> kind, origin |-> origin]
NoExc == Exc("none", "none")

\* The error classes a DB-API call raises in the model.
ErrKinds == {"OperationalError", "ProgrammingError"}

Vals == {1, 2}
Rows(w) == {Tuple(f) : f \in [1..w -> Vals]}
\* What cur.fetchall() may return: all rows of one result set have the
\* same number of fields.
ResultSets ==
    UNION {UNION {[1..n -> Rows(w)] : n \in 0..MaxResRows} : w \in 1..MaxFields}

\* What fetchall returns for table_exists' catalogue query by table name: no
\* row, or the one row of the table.
CatalogueResults == {<<>>, <<Tuple(<<1>>)>>}

Sqls == {<<"SELECT a FROM t">>, <<"UPDATE t SET a = ?">>}
ParamValues == {PyNone, Tuple(<<>>), Tuple(<<1>>)}
RowCounts == {0, 1}

VARIABLES
    pc,       \* the position in the code
    top,      \* the function the caller called
    args,     \* the arguments of that call
    fn,       \* the query wrapper whose frame is active
    sql, con, cur, retry, params,   \* its arguments (cur: None, given, fresh)
    result,   \* its local `result`
    excInfo,  \* the exception execute's frame is handling
    exists,   \* write_frame's local `exists` (existsSet: once assigned)
    existsSet,
    log,      \* the calls received by the connection and its cursors
    faults,   \* how many of them raised
    raised,   \* the exception that left the top-level call
    retval    \* the value the top-level call returned

vars == <<pc, top, args, fn, sql, con, cur, retry, params, result, excInfo,
          exists, existsSet, log, faults, raised, retval>>

qframe == <<fn, sql, con, cur, retry, params>>
wframe == <<exists, existsSet>>

\* ---------------------------------------------------------- the frame
ColumnPool ==
    { [name |-> "name", dtype |-> "np.object_"],
      [name |-> "hire date", dtype |-> "np.datetime64"],
      [name |-> "erank", dtype |-> "np.int64"],
      [name |-> "score", dtype |-> "np.float64"] }

Injective(s) == \A i, j \in DOMAIN s : s[i] = s[j] => i = j

FrameColumns ==
    UNION {{s \in [1..n -> ColumnPool] : Injective(s)} : n \in 0..MaxCols}

\* frame.values: row i, column j holds 10*i + j.
FrameValues(m, n) == [i \in 1..m |-> [j \in 1..n |-> 10 * i + j]]

Frames ==
    {[columns |-> c, values |-> FrameValues(m, Len(c))] :
        c \in FrameColumns, m \in 0..MaxFrameRows}

NoFrame == [columns |-> <<>>, values |-> <<>>]

Flavors == {"sqlite", "mysql", "postgresql", "oracle", "odbc", "mssql"}
Dialects == {"sqlite", "mysql", "oracle", "postgresql"}
Policies == {"fail", "replace", "append"}
TableName == "test_df"

\* ------------------------------------------------------ the connection
Entry(call, stmt, p, outcome) ==
    [call |-> call, stmt |-> stmt, params |-> p, outcome |-> outcome]

\* The outcomes of a call on the connection or on a cursor.
Outcomes == {"ok"} \cup (IF faults < MaxFaults THEN ErrKinds ELSE {})

Fault(o) == IF o = "ok" THEN 0 ELSE 1

NoArgs ==
    [sql |-> <<>>, con |-> FALSE, cur |-> "None", retry |-> FALSE,
     params |-> PyNone, frame |-> NoFrame, flavor |-> "none",
     if_exists |-> "none", pytype |-> "none"]

Init ==
    /\ pc = "idle"
    /\ top = "none"
    /\ args = NoArgs
    /\ fn = "none"
    /\ sql = <<>>
    /\ con = FALSE
    /\ cur = "None"
    /\ retry = FALSE
    /\ params = PyNone
    /\ result = PyNone
    /\ excInfo = NoExc
    /\ exists = FALSE
    /\ existsSet = FALSE
    /\ log = <<>>
    /\ faults = 0
    /\ raised = NoExc
    /\ retval = PyNone

\* ------------------------------------------------------------ execute
\* Where execute starts: line 31 obtains a cursor only when none was given.
ExecEntry(c) == IF c = "None" THEN "ex_cursor" ELSE "ex_execute"

\* Where control goes when execute returns its cursor (line 38).
ExecReturn(f) ==
    CASE f = "tquery" -> "fetch"
      [] f = "uquery" -> "uq_commit"
      [] OTHER -> "done"

\* The caller calls execute(sql, con, cur=..., params=...) directly.
CallExecute ==
    /\ pc = "idle"
    /\ \E s \in Sqls, c \in BOOLEAN, k \in {"None", "given"}, p \in ParamValues :
        /\ args' = [NoArgs EXCEPT !.sql = s, !.con = c, !.cur = k, !.params = p]
        /\ top' = "execute"
        /\ fn' = "execute"
        /\ sql' = s /\ con' = c /\ cur' = k /\ retry' = TRUE /\ params' = p
        /\ pc' = ExecEntry(k)
    /\ UNCHANGED <<result, excInfo, wframe, log, faults, raised, retval>>

\* Line 32: cur = con.cursor().  With con None the attribute lookup raises
\* AttributeError and no connection receives a call.
ExecuteCursor ==
    /\ pc = "ex_cursor"
    /\ IF ~con
         THEN /\ excInfo' = Exc("AttributeError", "cursor")
              /\ pc' = "ex_rollback"
              /\ UNCHANGED <<cur, log, faults>>
         ELSE \E o \in Outcomes :
              /\ log' = Append(log, Entry("cursor", <<>>, PyNone, o))
              /\ faults' = faults + Fault(o)
              /\ IF o = "ok"
                   THEN /\ cur' = "fresh"
                        /\ pc' = "ex_execute"
                        /\ UNCHANGED excInfo
                   ELSE /\ excInfo' = Exc(o, "cursor")
                        /\ pc' = "ex_rollback"
                        /\ UNCHANGED cur
    /\ UNCHANGED <<top, args, fn, sql, con, retry, params, result, wframe,
                   raised, retval>>

\* Lines 34-38: cur.execute(sql) when params is None, cur.execute(sql, params)
\* otherwise; the cursor is returned.
ExecuteRun ==
    /\ pc = "ex_execute"
    /\ \E o \in Outcomes :
        /\ log' = Append(log, Entry("execute", sql, params, o))
        /\ faults' = faults + Fault(o)
        /\ IF o = "ok"
             THEN /\ pc' = ExecReturn(fn)
                  /\ retval' = IF fn = "execute" THEN Py("cursor", <<cur>>) ELSE retval
                  /\ UNCHANGED excInfo
             ELSE /\ excInfo' = Exc(o, "execute")
                  /\ pc' = "ex_rollback"
                  /\ UNCHANGED retval
    /\ UNCHANGED <<top, args, qframe, result, wframe, raised>>

\* Line 46, a bare `raise` after the inner try/except of lines 40-43.  In
\* Python 2 an except clause that handles an exception replaces the frame's
\* current exception and nothing restores it when the clause ends, so the
\* bare raise re-raises the exception handled last: the rollback's, when the
\* rollback raised.
BareRaise(caught, inner) == IF inner = NoExc THEN caught ELSE inner

\* Lines 39-46: con.rollback(), its own failure swallowed, then raise.  No
\* caller of execute in this module catches what it raises.
ExecuteRollback ==
    /\ pc = "ex_rollback"
    /\ IF ~con
         THEN /\ raised' = BareRaise(excInfo, Exc("AttributeError", "rollback"))
              /\ UNCHANGED <<log, faults>>
         ELSE \E o \in Outcomes :
              /\ log' = Append(log, Entry("rollback", <<>>, PyNone, o))
              /\ faults' = faults + Fault(o)
              /\ raised' = BareRaise(excInfo,
                                IF o = "ok" THEN NoExc ELSE Exc(o, "rollback"))
    /\ pc' = "done"
    /\ UNCHANGED <<top, args, qframe, result, excInfo, wframe, retval>>

\* -------------------------------------------------------- _safe_fetch
\* Lines 49-58: the rows as a list; [] when fetchall raised an error whose
\* class is named OperationalError; for any other error the except clause
\* ends without a return or a raise, so the function returns None.
SafeFetch(o, rows) ==
    IF o = "ok" THEN List(rows)
    ELSE IF o = "OperationalError" THEN List(<<>>)
    ELSE PyNone

\* ------------------------------------------------------------- tquery
CallTquery ==
    /\ pc = "idle"
    /\ \E s \in Sqls, c \in BOOLEAN, k \in {"None", "given"}, r \in BOOLEAN :
        /\ args' = [NoArgs EXCEPT !.sql = s, !.con = c, !.cur = k, !.retry = r]
        /\ top' = "tquery"
        /\ fn' = "tquery"
        /\ sql' = s /\ con' = c /\ cur' = k /\ retry' = r /\ params' = PyNone
        /\ pc' = ExecEntry(k)
    /\ UNCHANGED <<result, excInfo, wframe, log, faults, raised, retval>>

\* Lines 79-81: result = _safe_fetch(cur); the commit block runs only with
\* a connection.
Fetch ==
    /\ pc = "fetch"
    /\ \E o \in Outcomes :
        \E rows \in (IF o # "ok" THEN {<<>>}
                     ELSE IF top = "write_frame" THEN CatalogueResults
                     ELSE ResultSets) :
            /\ log' = Append(log, Entry("fetchall", <<>>, PyNone, o))
            /\ faults' = faults + Fault(o)
            /\ result' = SafeFetch(o, rows)
    /\ pc' = IF con THEN "tq_close" ELSE "tq_post"
    /\ UNCHANGED <<top, args, qframe, excInfo, wframe, raised, retval>>

\* A handler that retries whenever the error is an OperationalError.
TqCommitHandlerAlwaysRetry(kind, r) ==
    IF kind # "OperationalError" THEN "raise" ELSE "retry"

\* Lines 85-94: what the except clause around close/commit does with an
\* error of class `kind`.
TqCommitHandler(kind, r) ==
    IF kind # "OperationalError" THEN "raise"
    ELSE IF r THEN "retry"
    ELSE "fallthrough"

\* The except clause of lines 85-94 for an error raised by `origin`; the
\* retry is the call tquery(sql, con=con, retry=False) of line 94, whose
\* value is returned as it is.
TqExcept(kind, origin) ==
    LET h == TqCommitHandler(kind, retry) IN
    /\ raised' = IF h = "raise" THEN Exc(kind, origin) ELSE raised
    /\ pc' = CASE h = "raise" -> "done"
               [] h = "retry" -> ExecEntry("None")
               [] OTHER -> "tq_post"
    /\ cur' = IF h = "retry" THEN "None" ELSE cur
    /\ retry' = IF h = "retry" THEN FALSE ELSE retry
    /\ result' = IF h = "retry" THEN PyNone ELSE result

\* Line 83: cur.close().
TqClose ==
    /\ pc = "tq_close"
    /\ \E o \in Outcomes :
        /\ log' = Append(log, Entry("close", <<>>, PyNone, o))
        /\ faults' = faults + Fault(o)
        /\ IF o = "ok"
             THEN /\ pc' = "tq_commit"
                  /\ UNCHANGED <<cur, retry, result, raised>>
             ELSE TqExcept(o, "close")
    /\ UNCHANGED <<top, args, fn, sql, con, params, excInfo, wframe, retval>>

\* Line 84: con.commit().
TqCommit ==
    /\ pc = "tq_commit"
    /\ \E o \in Outcomes :
        /\ log' = Append(log, Entry("commit", <<>>, PyNone, o))
        /\ faults' = faults + Fault(o)
        /\ IF o = "ok"
             THEN /\ pc' = "tq_post"
                  /\ UNCHANGED <<cur, retry, result, raised>>
             ELSE TqExcept(o, "commit")
    /\ UNCHANGED <<top, args, fn, sql, con, params, excInfo, wframe, retval>>

Min(S) == CHOOSE x \in S : \A y \in S : x <= y

\* zip(*rows): the i-th tuple holds the i-th field of every row, up to the
\* length of the shortest row.
Zip(rows) ==
    [i \in 1..Min({Len(rows[r].items) : r \in DOMAIN rows}) |->
        Tuple([r \in DOMAIN rows |-> rows[r].items[i]])]

\* list(t): the elements of a tuple as a list of scalars.
ListOf(t) == List([i \in DOMAIN t.items |-> Scalar(t.items[i])])

\* A post-processing that tests len(result) where the code tests
\* len(result[0]).
PostprocessLenResult(res) ==
    IF res.tag = "list" /\ Len(res.items) = 1
      THEN ListOf(Zip(res.items)[1])
      ELSE IF res = PyNone THEN List(<<>>) ELSE res

\* Lines 96-102: a non-empty result whose first row has one field becomes
\* list(zip(*result)[0]); None becomes []; anything else is returned as is.
Postprocess(res) ==
    IF res.tag = "list" /\ Len(res.items) > 0 /\ Len(res.items[1].items) = 1
      THEN ListOf(Zip(res.items)[1])
      ELSE IF res = PyNone THEN List(<<>>) ELSE res

\* Lines 96-102 and the return; when table_exists made the call, line 238
\* hands len(...) > 0 to write_frame, whose line 177 stores it in `exists`.
TqPost ==
    /\ pc = "tq_post"
    /\ IF top = "write_frame"
         THEN /\ exists' = (Len(Postprocess(result).items) > 0)
              /\ existsSet' = TRUE
              /\ pc' = "wf_policy"
              /\ fn' = "none" /\ sql' = <<>> /\ cur' = "None" /\ retry' = FALSE
              /\ result' = PyNone
              /\ UNCHANGED <<con, params, retval>>
         ELSE /\ retval' = Postprocess(result)
              /\ pc' = "done"
              /\ UNCHANGED <<qframe, result, wframe>>
    /\ UNCHANGED <<top, args, excInfo, log, faults, raised>>

\* ------------------------------------------------------------- uquery
CallUquery ==
    /\ pc = "idle"
    /\ \E s \in Sqls, c \in BOOLEAN, k \in {"None", "given"}, r \in BOOLEAN,
          p \in {Tuple(<<>>), Tuple(<<1>>)} :
        /\ args' = [NoArgs EXCEPT !.sql = s, !.con = c, !.cur = k, !.retry = r,
                                  !.params = p]
        /\ top' = "uquery"
        /\ fn' = "uquery"
        /\ sql' = s /\ con' = c /\ cur' = k /\ retry' = r /\ params' = p
        /\ pc' = ExecEntry(k)
    /\ UNCHANGED <<result, excInfo, wframe, log, faults, raised, retval>>

\* Lines 115-123: what the except clause around commit does.
UqCommitHandler(kind, r) ==
    IF kind # "OperationalError" THEN "raise"
    ELSE IF r THEN "retry"
    ELSE "fallthrough"

\* Line 123: the retry is uquery(sql, con, retry=False); cur and params are
\* not passed on and take their defaults, None and ().
UqRetryParams(p) == Tuple(<<>>)

\* The except clause of lines 115-123 for an error of class `kind`.
UqExcept(kind) ==
    LET h == UqCommitHandler(kind, retry) IN
    /\ raised' = IF h = "raise" THEN Exc(kind, "commit") ELSE raised
    /\ pc' = CASE h = "retry" -> ExecEntry("None")
               [] OTHER -> "done"
    /\ retval' = IF h = "fallthrough" THEN result' ELSE retval
    /\ cur' = IF h = "retry" THEN "None" ELSE cur
    /\ retry' = IF h = "retry" THEN FALSE ELSE retry
    /\ params' = IF h = "retry" THEN UqRetryParams(params) ELSE params

\* Lines 112-124: result = cur.rowcount, then con.commit().  With con None
\* the commit raises AttributeError, which is not an OperationalError.
UqCommit ==
    /\ pc = "uq_commit"
    /\ \E rc \in RowCounts : result' = Scalar(rc)
    /\ IF ~con
         THEN /\ UqExcept("AttributeError")
              /\ UNCHANGED <<log, faults>>
         ELSE \E o \in Outcomes :
              /\ log' = Append(log, Entry("commit", <<>>, PyNone, o))
              /\ faults' = faults + Fault(o)
              /\ IF o = "ok"
                   THEN /\ retval' = result'
                        /\ pc' = "done"
                        /\ UNCHANGED <<cur, retry, params, raised>>
                   ELSE UqExcept(o)
    /\ UNCHANGED <<top, args, fn, sql, con, excInfo, wframe>>

\* -------------------------------------------------------- get_sqltype
PyTypes ==
    {"np.object_", "np.bool_", "np.float64", "np.int64", "np.datetime64",
     "datetime.datetime", "datetime.date"}

\* issubclass(pytype, np.number); line 257: np.datetime64 is one too.
IsNumber(t) == t \in {"np.float64", "np.int64", "np.datetime64"}

\* issubclass(pytype, np.integer).
IsInteger(t) == t \in {"np.int64"}

\* issubclass(pytype, np.datetime64) or pytype is datetime.
IsDatetime(t) == t \in {"np.datetime64", "datetime.datetime"}

\* What the expression `datetime.date` of line 262 evaluates to: line 5
\* binds the name datetime to the class datetime.datetime, so this is that
\* class's method `date`, not the class datetime.date.
DatetimeDotDate == "datetime.datetime.date"

\* Lines 240-267: the dictionary is overwritten by each test that passes,
\* in this order, and indexed by the flavor.
GetSqltype(pytype, flavor) ==
    LET d0 == [mysql |-> "VARCHAR", oracle |-> "VARCHAR2", sqlite |-> "TEXT",
               postgresql |-> "TEXT"]
        d1 == IF IsNumber(pytype)
                THEN [mysql |-> "FLOAT", oracle |-> "NUMBER", sqlite |-> "REAL",
                      postgresql |-> "NUMBER"]
                ELSE d0
        d2 == IF IsNumber(pytype) /\ IsInteger(pytype)
                THEN [mysql |-> "INT", oracle |-> "PLS_INTEGER",
                      sqlite |-> "INTEGER", postgresql |-> "INTEGER"]
                ELSE d1
        d3 == IF IsDatetime(pytype)
                THEN [mysql |-> "DATETIME", oracle |-> "DATE",
                      sqlite |-> "TIMESTAMP", postgresql |-> "TIMESTAMP"]
                ELSE d2
        d4 == IF pytype = DatetimeDotDate
                THEN [mysql |-> "DATE", oracle |-> "DATE",
                      sqlite |-> "TIMESTAMP", postgresql |-> "TIMESTAMP"]
                ELSE d3
    IN d4[flavor]

CallGetSqltype ==
    /\ pc = "idle"
    /\ \E t \in PyTypes, f \in Dialects :
        /\ args' = [NoArgs EXCEPT !.pytype = t, !.flavor = f]
        /\ retval' = Py("str", <<GetSqltype(t, f)>>)
    /\ top' = "get_sqltype"
    /\ pc' = "done"
    /\ UNCHANGED <<qframe, result, excInfo, wframe, log, faults, raised>>

\* ------------------------------------------------- statement building
\* A statement is the sequence of the pieces its text is put together from.
RECURSIVE Join(_, _)
\* sep.join(parts), each part a sequence of pieces.
Join(sep, parts) ==
    IF Len(parts) = 0 THEN <<>>
    ELSE IF Len(parts) = 1 THEN parts[1]
    ELSE parts[1] \o <<sep>> \o Join(sep, Tail(parts))

\* s.replace(' ', '_').strip() on the column names of ColumnPool.
SafeName(s) == IF s = "hire date" THEN "hire_date" ELSE s

\* name.upper() on the table name.
Upper(s) == IF s = "test_df" THEN "TEST_DF" ELSE s

\* Lines 269-291 with keys=None.  For oracle line 290 reads the name
\* create_statment, which nothing binds: NameError.
GetSchema(frame, name, flavor) ==
    LET cols == frame.columns
        safe_columns == [i \in DOMAIN cols |-> SafeName(cols[i].name)]
        types == [i \in DOMAIN cols |-> GetSqltype(cols[i].dtype, flavor)]
        defs == [i \in DOMAIN cols |->
                    IF flavor = "sqlite"
                      THEN <<"[" \o safe_columns[i] \o "]", types[i]>>
                      ELSE <<safe_columns[i], types[i]>>]
    IN [exc |-> IF flavor = "oracle" THEN Exc("NameError", "get_schema")
                ELSE NoExc,
        stmt |-> <<"CREATE TABLE", name, "(">> \o Join(",", defs)
                    \o <<")", ";">>]

\* A sequence2dict whose keys start from 0.
Sequence2dictFromZero(seq) ==
    Py("dict", [k \in {ToString(i - 1) : i \in 1..Len(seq)} |->
                   seq[CHOOSE i \in 1..Len(seq) : ToString(i - 1) = k]])

\* Lines 293-307: the i-th element under the key str(i), i from 1.
Sequence2dict(seq) ==
    Py("dict", [k \in {ToString(i) : i \in 1..Len(seq)} |->
                   seq[CHOOSE i \in 1..Len(seq) : ToString(i) = k]])

\* Lines 194-216: the INSERT statement of the three flavors that have one.
InsertQuery(flavor, name, columns) ==
    LET safe_names == [i \in DOMAIN columns |-> SafeName(columns[i].name)]
        col_names ==
            IF flavor = "sqlite"
              THEN Join(",", [i \in DOMAIN safe_names |->
                                 <<"[" \o safe_names[i] \o "]">>])
              ELSE Join(",", [i \in DOMAIN safe_names |-> <<safe_names[i]>>])
        wildcards ==
            CASE flavor = "sqlite" ->
                    Join(",", [i \in DOMAIN safe_names |-> <<"?">>])
              [] flavor = "mysql" ->
                    Join(",", [i \in DOMAIN safe_names |-> <<"%s">>])
              [] OTHER ->
                    Join(", ", [i \in DOMAIN safe_names |->
                                   <<":" \o ToString(i)>>])
    IN <<"INSERT INTO", name, "(">> \o col_names \o <<")", "VALUES", "(">>
          \o wildcards \o <<")">>

\* Lines 201, 209, 216: the records handed to executemany.
InsertData(flavor, values) ==
    IF flavor = "oracle"
      THEN List([i \in DOMAIN values |-> Sequence2dict(values[i])])
      ELSE List([i \in DOMAIN values |-> Tuple(values[i])])

\* ------------------------------------------------------- table_exists
\* Lines 224-237: the catalogue query of the flavor, or NotImplementedError.
ExistsQuery(name, flavor) ==
    CASE flavor = "sqlite" ->
            [exc |-> NoExc,
             stmt |-> <<"SELECT name FROM sqlite_master WHERE type='table' AND name=",
                        name>>]
      [] flavor = "mysql" ->
            [exc |-> NoExc, stmt |-> <<"SHOW TABLES LIKE", name>>]
      [] flavor = "postgresql" ->
            [exc |-> NoExc,
             stmt |-> <<"SELECT * FROM pg_tables WHERE tablename=", name>>]
      [] flavor = "oracle" ->
            [exc |-> NoExc,
             stmt |-> <<"SELECT table_name FROM user_tables WHERE table_name=",
                        Upper(name)>>]
      [] OTHER ->
            [exc |-> Exc("NotImplementedError", "table_exists"), stmt |-> <<>>]

\* -------------------------------------------------------- write_frame
\* Line 177, write_frame's first statement: table_exists(name, con, flavor),
\* which raises for a flavor it does not know and otherwise calls
\* tquery(query, con) (line 238).
CallWriteFrame ==
    /\ pc = "idle"
    /\ \E fr \in Frames, fl \in Flavors, ie \in Policies :
        LET q == ExistsQuery(TableName, fl) IN
        /\ args' = [NoArgs EXCEPT !.frame = fr, !.flavor = fl, !.if_exists = ie,
                                  !.con = TRUE]
        /\ IF q.exc # NoExc
             THEN /\ raised' = q.exc
                  /\ pc' = "done"
                  /\ UNCHANGED qframe
             ELSE /\ fn' = "tquery"
                  /\ sql' = q.stmt /\ con' = TRUE /\ cur' = "None"
                  /\ retry' = TRUE /\ params' = PyNone
                  /\ pc' = ExecEntry("None")
                  /\ UNCHANGED raised
    /\ top' = "write_frame"
    /\ UNCHANGED <<result, excInfo, wframe, log, faults, retval>>

\* A policy without the test of lines 180-181.
PolicyAppendUnchecked(if_exists, ex) ==
    IF if_exists = "fail" /\ ex THEN "raise_exists"
    ELSE IF if_exists = "replace" /\ ex THEN "drop"
    ELSE IF if_exists = "replace" \/ ~ex THEN "create"
    ELSE "insert"

\* Lines 178-186: what write_frame does once it knows `exists`.
Policy(if_exists, ex) ==
    IF if_exists = "fail" /\ ex THEN "raise_exists"
    ELSE IF if_exists = "append" /\ ~ex THEN "raise_missing"
    ELSE IF if_exists = "replace" /\ ex THEN "drop"
    ELSE IF if_exists = "replace" \/ ~ex THEN "create"
    ELSE "insert"

WfPolicy ==
    /\ pc = "wf_policy"
    /\ LET p == Policy(args.if_exists, exists) IN
        /\ raised' = CASE p = "raise_exists" -> Exc("ValueError", "already exists")
                       [] p = "raise_missing" -> Exc("ValueError", "does not exist")
                       [] OTHER -> raised
        /\ pc' = CASE p = "drop" -> "wf_drop"
                   [] p = "create" -> "wf_create"
                   [] p = "insert" -> "wf_insert"
                   [] OTHER -> "done"
    /\ UNCHANGED <<top, args, qframe, result, excInfo, wframe, log, faults, retval>>

\* Which of n calls in a row raises (0: none), and what.
FailChoices(n) ==
    {[at |-> 0, kind |-> "ok"]} \cup
    (IF faults < MaxFaults
       THEN {[at |-> i, kind |-> k] : i \in 1..n, k \in ErrKinds}
       ELSE {})

\* The calls of `calls` made in order on the connection up to the one that
\* raises; write_frame catches nothing, so the error leaves it.  `after` is
\* an exception the code itself raises once the calls are through.
Block(calls, after, next) ==
    \E f \in FailChoices(Len(calls)) :
        LET n == IF f.at = 0 THEN Len(calls) ELSE f.at IN
        /\ log' = log \o [i \in 1..n |->
                     [calls[i] EXCEPT !.outcome = IF i = f.at THEN f.kind ELSE "ok"]]
        /\ faults' = faults + (IF f.at = 0 THEN 0 ELSE 1)
        /\ raised' = IF f.at # 0 THEN Exc(f.kind, calls[f.at].call)
                     ELSE after
        /\ pc' = IF f.at # 0 \/ after # NoExc THEN "done" ELSE next

\* Lines 183-185: a cursor, DROP TABLE, close.
WfDrop ==
    /\ pc = "wf_drop"
    /\ Block(<<Entry("cursor", <<>>, PyNone, "ok"),
               Entry("execute", <<"DROP TABLE", TableName>>, PyNone, "ok"),
               Entry("close", <<>>, PyNone, "ok")>>,
             NoExc, "wf_create")
    /\ UNCHANGED <<top, args, qframe, result, excInfo, wframe, retval>>

\* Lines 187-190: a cursor, get_schema, CREATE TABLE, close.
WfCreate ==
    /\ pc = "wf_create"
    /\ LET schema == GetSchema(args.frame, TableName, args.flavor) IN
        IF schema.exc # NoExc
          THEN Block(<<Entry("cursor", <<>>, PyNone, "ok")>>, schema.exc, "done")
          ELSE Block(<<Entry("cursor", <<>>, PyNone, "ok"),
                       Entry("execute", schema.stmt, PyNone, "ok"),
                       Entry("close", <<>>, PyNone, "ok")>>,
                     NoExc, "wf_insert")
    /\ UNCHANGED <<top, args, qframe, result, excInfo, wframe, retval>>

\* Lines 192-221: a cursor, the INSERT through executemany, close, commit;
\* NotImplementedError for a flavor other than sqlite, mysql and oracle.
WfInsert ==
    /\ pc = "wf_insert"
    /\ IF args.flavor \in {"sqlite", "mysql", "oracle"}
         THEN Block(<<Entry("cursor", <<>>, PyNone, "ok"),
                      Entry("executemany",
                            InsertQuery(args.flavor, TableName, args.frame.columns),
                            InsertData(args.flavor, args.frame.values), "ok"),
                      Entry("close", <<>>, PyNone, "ok"),
                      Entry("commit", <<>>, PyNone, "ok")>>,
                    NoExc, "done")
         ELSE Block(<<Entry("cursor", <<>>, PyNone, "ok")>>,
                    Exc("NotImplementedError", "write_frame"), "done")
    /\ UNCHANGED <<top, args, qframe, result, excInfo, wframe, retval>>

\* ------------------------------------------------------ specification
Next ==
    \/ CallExecute
    \/ CallTquery
    \/ CallUquery
    \/ CallWriteFrame
    \/ CallGetSqltype
    \/ ExecuteCursor
    \/ ExecuteRun
    \/ ExecuteRollback
    \/ Fetch
    \/ TqClose
    \/ TqCommit
    \/ TqPost
    \/ UqCommit
    \/ WfPolicy
    \/ WfDrop
    \/ WfCreate
    \/ WfInsert

Spec == Init /\ [][Next]_vars

\* ------------------------------------------------------------- claims
Done == pc = "done"

IsDDL(e) ==
    /\ e.call \in {"execute", "executemany"}
    /\ Len(e.stmt) > 0
    /\ e.stmt[1] \in {"DROP TABLE", "CREATE TABLE", "INSERT INTO"}

\* The DROP / CREATE / INSERT statements the connection received, in order.
DDLSeq == LET d == SelectSeq(log, IsDDL) IN [i \in DOMAIN d |-> d[i].stmt[1]]

Calls(name) == {i \in DOMAIN log : log[i].call = name}

PolicyFails ==
    \/ args.if_exists = "fail" /\ exists
    \/ args.if_exists = "append" /\ ~exists

C2_ReplaceDropCreateInsert ==
    (top = "write_frame" /\ Done /\ existsSet /\ exists /\ faults = 0
        /\ args.if_exists = "replace") =>
        /\ DDLSeq = <<"DROP TABLE", "CREATE TABLE", "INSERT INTO">>
        /\ Cardinality(Calls("executemany")) = 1
        /\ log[Len(log) - 2].call = "executemany"

RetryTriggers == {i \in DOMAIN log : /\ log[i].call \in {"close", "commit"}
                                     /\ log[i].outcome = "OperationalError"}

\* C3: in tquery and uquery, a commit that fails with OperationalError is
\* followed by one re-execution of the statement when retry is enabled and
\* by none when it is not; the statement is executed at most twice per
\* top-level call, also when the retried attempt's commit fails with
\* OperationalError again; a commit failure of any other kind ends the call
\* with that error and nothing is executed after it.
C3_RetryOnce ==
    top \in {"tquery", "uquery"} =>
        /\ Cardinality(Calls("execute")) <= 2
        /\ ~args.retry => Cardinality(Calls("execute")) <= 1
        /\ \A i \in Calls("execute") : log[i].stmt = args.sql
        /\ \A i \in Calls("commit") :
              LET after == {j \in Calls("execute") : j > i} IN
              /\ log[i].outcome \notin {"ok", "OperationalError"} =>
                    /\ i = Len(log)
                    /\ Done
                    /\ raised = Exc(log[i].outcome, "commit")
              /\ (log[i].outcome = "OperationalError" /\ ~args.retry) =>
                    after = {}
              /\ (/\ log[i].outcome = "OperationalError"
                  /\ args.retry
                  /\ \A j \in RetryTriggers : j >= i) =>
                    /\ Cardinality(after) <= 1
                    /\ (Done /\ raised = NoExc) => Cardinality(after) = 1
                    /\ (Done /\ after = {}) =>
                          log[i + 1].call = "cursor" /\ log[i + 1].outcome # "ok"

C3_Witness ==
    /\ top = "tquery" /\ Done /\ args.retry /\ raised = NoExc
    /\ Cardinality(Calls("execute")) = 2
    /\ Cardinality({i \in Calls("commit") : log[i].outcome = "OperationalError"}) = 2

\* C4: when obtaining the cursor or executing the statement fails inside
\* execute, execute calls rollback() on the connection exactly once (when
\* there is a connection), re-raises the original failure rather than the
\* rollback's, also when the rollback itself fails or no connection was
\* supplied, and does not execute the statement again.
C4_ExecuteReraisesOriginal ==
    (Done /\ excInfo # NoExc) =>
        /\ raised = excInfo
        /\ con => Cardinality(Calls("rollback")) = 1
        /\ log[Len(log)].call # "execute"

\* C5: _safe_fetch returns an empty sequence when fetchall fails with an
\* OperationalError, and a fetchall failure of any other kind leaves the
\* call as that error instead of becoming a return value.
C5_SafeFetchPropagates ==
    \A i \in Calls("fetchall") :
        /\ (log[i].outcome = "OperationalError" /\ i = Len(log)) =>
              result = List(<<>>)
        /\ log[i].outcome \notin {"ok", "OperationalError"} =>
              Done /\ raised = Exc(log[i].outcome, "fetchall")

PolicyPasses == existsSet /\ ~PolicyFails

\* C6: for each of the four dialects and a connection none of whose calls
\* raises, a write_frame call that passes the policy check executes the bulk
\* INSERT and commits as its last action, exactly once after the INSERT; the
\* only errors a call ends in are table-already-exists,
\* table-missing-for-append and unsupported-dialect; and no call ends in an
\* error after a CREATE TABLE or DROP TABLE has been executed.
C6_WritePathTerminals ==
    (top = "write_frame" /\ Done /\ faults = 0 /\ args.flavor \in Dialects) =>
        /\ raised \in {NoExc, Exc("ValueError", "already exists"),
                       Exc("ValueError", "does not exist"),
                       Exc("NotImplementedError", "table_exists"),
                       Exc("NotImplementedError", "write_frame")}
        /\ PolicyPasses =>
              /\ raised = NoExc
              /\ log[Len(log)].call = "commit"
              /\ log[Len(log) - 2].call = "executemany"
              /\ Cardinality({i \in Calls("commit") : i > Len(log) - 2}) = 1
        /\ raised # NoExc => DDLSeq = <<>>

\* What C7 says get_sqltype returns: the entry of the dialect for the
\* category of the type, a calendar date taking the date-oriented entry.
ClaimedSqltype(pytype, flavor) ==
    LET entry(my, ora, lite, pg) ==
            [mysql |-> my, oracle |-> ora, sqlite |-> lite, postgresql |-> pg][flavor]
    IN CASE pytype = "datetime.date" -> entry("DATE", "DATE", "TIMESTAMP", "TIMESTAMP")
         [] pytype \in {"np.datetime64", "datetime.datetime"} ->
                entry("DATETIME", "DATE", "TIMESTAMP", "TIMESTAMP")
         [] pytype = "np.int64" -> entry("INT", "PLS_INTEGER", "INTEGER", "INTEGER")
         [] pytype = "np.float64" -> entry("FLOAT", "NUMBER", "REAL", "NUMBER")
         [] OTHER -> entry("VARCHAR", "VARCHAR2", "TEXT", "TEXT")

\* C7: for every dialect and every value type, get_sqltype returns the
\* dialect's text type by default, its float type for a numeric type, its
\* integer type for an integer type, its timestamp type for a datetime
\* (numpy datetime64 included) and its date-oriented type (DATE for mysql)
\* for the calendar-date type.
C7_TypeResolution ==
    (top = "get_sqltype" /\ Done) =>
        retval = Py("str", <<ClaimedSqltype(args.pytype, args.flavor)>>)

\* C8: tquery returns the single field of each row, in row order, when the
\* fetched result is non-empty and its rows have exactly one field; the
\* rows unchanged when they have more than one field; and an empty sequence
\* when the result is empty or absent.  The same holds of the value
\* returned through the retry.
C8_TqueryShape ==
    (top = "tquery" /\ Done /\ raised = NoExc) =>
        LET rows == result.items IN
        /\ retval.tag = "list"
        /\ (result = PyNone \/ rows = <<>>) => retval = List(<<>>)
        /\ (result.tag = "list" /\ rows # <<>>
              /\ \A r \in DOMAIN rows : Len(rows[r].items) = 1) =>
                 retval = List([r \in DOMAIN rows |-> Scalar(rows[r].items[1])])
        /\ (result.tag = "list" /\ rows # <<>>
              /\ \A r \in DOMAIN rows : Len(rows[r].items) > 1) =>
                 retval = List(rows)

C8_Witness ==
    /\ top = "tquery" /\ Done /\ raised = NoExc
    /\ Cardinality(Calls("fetchall")) = 2
    /\ result = List(<<Tuple(<<2>>), Tuple(<<1>>)>>)
    /\ retval = List(<<Scalar(2), Scalar(1)>>)

\* The first position from `from` on at which statement q holds `piece`.
Pos(q, piece, from) == Min({i \in from..Len(q) : q[i] = piece})

\* The pieces of an INSERT statement between its first pair of parentheses
\* (the columns) and between its second pair (the placeholders), the
\* separators left out.
NamedColumns(q) ==
    LET open == Pos(q, "(", 1)
        close == Pos(q, ")", open)
    IN SelectSeq(SubSeq(q, open + 1, close - 1), LAMBDA t : t # ",")

Placeholders(q) ==
    LET close == Pos(q, ")", 1)
        open == Pos(q, "(", close)
    IN SelectSeq(SubSeq(q, open + 1, Len(q) - 1), LAMBDA t : t \notin {",", ", "})

\* C9: for a frame of N columns and M rows and each dialect for which
\* write_frame builds an INSERT, the statement handed to executemany names
\* exactly N columns and holds exactly N placeholders, and the data holds
\* exactly M records of exactly N values each; for oracle each record is a
\* dictionary with exactly the keys '1'..'N', the placeholders being
\* :1..:N.
C9_InsertShape ==
    \A i \in Calls("executemany") :
        LET n == Len(args.frame.columns)
            m == Len(args.frame.values)
            q == log[i].stmt
            data == log[i].params.items
        IN /\ q[1] = "INSERT INTO"
           /\ Len(NamedColumns(q)) = n
           /\ Len(Placeholders(q)) = n
           /\ Len(data) = m
           /\ \A r \in DOMAIN data :
                 IF args.flavor = "oracle"
                   THEN /\ data[r].tag = "dict"
                        /\ DOMAIN data[r].items = {ToString(k) : k \in 1..n}
                        /\ \A k \in 1..n :
                              data[r].items[ToString(k)] = args.frame.values[r][k]
                   ELSE /\ data[r].tag = "tuple"
                        /\ Len(data[r].items) = n
           /\ args.flavor = "oracle" =>
                 Placeholders(q) = [k \in 1..n |-> ":" \o ToString(k)]

C9_Witness ==
    /\ top = "write_frame" /\ Done /\ raised = NoExc
    /\ args.flavor = "oracle"
    /\ Len(args.frame.columns) = 2 /\ Len(args.frame.values) = 2
    /\ Calls("executemany") # {}

\* C10: every execution of the statement by uquery(sql, con, params=p), the
\* re-execution after an OperationalError on commit included, runs the same
\* SQL text with the parameters p.
C10_RetryKeepsParams ==
    top = "uquery" =>
        \A i \in Calls("execute") :
            log[i].stmt = args.sql /\ log[i].params = args.params

====
